---- MODULE Spec2Model ----
(***************************************************************************)
(* A model of hotspot/src/share/vm/memory/generation.cpp: the generic      *)
(* algorithms of class Generation over a two-generation heap               *)
(* (GenCollectedHeap) and over the spaces a generation owns.               *)
(*                                                                         *)
(* Three specifications share the variables:                               *)
(*   Spec         promotion, capacity checks, reference-processor set-up   *)
(*   SpecQuery    space_containing / block_start / block_size /            *)
(*                block_is_obj / is_in over a generation's spaces          *)
(*   SpecCompact  prepare_for_compaction / adjust_pointers / compact       *)
(***************************************************************************)
EXTENDS Integers, Sequences, FiniteSets, TLC

\* ---------------------------------------------------------------- bounds
MaxObjSize == 2
YoungWords == 2
OldWords == 2
SpaceWords == 2
MaxObjects == 2
MaxProcessors == 3

\* The null address, the null generation and the null reference processor.
NULL == 0

VARIABLES
  build,        \* the build of the VM: product, optimized or debug
  gens,         \* the heap's generations: gens[g] is a Generation
  mem,          \* the heap's words
  oops,         \* the objects known to the collector: [addr, size]
  processors,   \* every ReferenceProcessor constructed so far, in order
  fatal,        \* the VM has aborted (assert, ShouldNotCallThis, vm_exit)
  last,         \* the last call made on a generation and what it returned
  spaces,       \* the spaces one generation owns, in space_iterate order
  first_cs,     \* that generation's first_compaction_space()
  objects,      \* the objects in those spaces
  cp,           \* the CompactPoint of the collection in progress
  passes,       \* the compaction passes run so far, in order
  visits        \* the per-space calls the last pass made, in order

vars == <<build, gens, mem, oops, processors, fatal, last,
          spaces, first_cs, objects, cp, passes, visits>>

genVars == <<build, gens, mem, oops, processors, fatal>>
spaceVars == <<spaces, first_cs, objects, cp, passes, visits>>

\* ----------------------------------------------------------- the build
Builds == {"product", "optimized", "debug"}

\* PRODUCT is defined in a product build: code under #ifndef PRODUCT is
\* compiled in the other two.
PRODUCT == build = "product"

\* ASSERT is defined in a debug build: assert(p, msg) aborts the VM there
\* when p is false, and is compiled to nothing in the other two.
ASSERT == build = "debug"

\* ------------------------------------------------------------ the heap
young_gen == 1
old_gen == 2
GenIds == {young_gen, old_gen}

HeapWords == YoungWords + OldWords
Addr == 1..HeapWords

\* MemRegion [start, end_): is_empty() iff it holds no word.
MemRegion(start, end_) == [start |-> start, end_ |-> end_]
is_empty(mr) == mr.end_ <= mr.start
word_size(mr) == IF is_empty(mr) THEN 0 ELSE mr.end_ - mr.start

\* Generation::Generation(rs, initial_size, level): _level is level,
\* _ref_processor is NULL, _reserved is the virtual space's
\* [low_boundary, high_boundary); high is the committed end.
Generation(rs, initial_size, level) ==
  [level         |-> level,
   ref_processor |-> NULL,
   reserved      |-> MemRegion(rs.start, rs.end_),
   high          |-> rs.start + initial_size,
   top           |-> rs.start]

level(g) == gens[g].level
reserved(g) == gens[g].reserved

\* Generation::max_capacity(): the size of the reserved range.
max_capacity(g) == word_size(reserved(g))

\* GenCollectedHeap::old_gen(), as next_gen() uses it.
gch_old_gen == CHOOSE g \in GenIds : gens[g].level = 1

\* Generation::next_gen().
next_gen_forgets_old(g) == NULL

next_gen(g) == IF level(g) = 0 THEN gch_old_gen ELSE NULL

\* Generation::contiguous_available() (virtual): the free words above top,
\* committed or not, which are contiguous in a one-space generation.
contiguous_available(g) == gens[g].reserved.end_ - gens[g].top

\* The loop of Generation::max_contiguous_available(); visited counts its
\* iterations.
RECURSIVE mca_loop(_, _, _)
mca_loop(gen, max, visited) ==
  IF gen = NULL
  THEN [max |-> max, visited |-> visited]
  ELSE LET avail == contiguous_available(gen)
       IN  mca_loop(next_gen(gen), IF avail > max THEN avail ELSE max,
                    visited + 1)

max_contiguous_available(g) == mca_loop(g, 0, 0).max

\* Generation::promotion_attempt_is_safe(max_promotion_in_bytes).
promotion_attempt_is_safe_strict(g, max_promotion_in_bytes) ==
  max_contiguous_available(g) > max_promotion_in_bytes

promotion_attempt_is_safe(g, max_promotion_in_bytes) ==
  LET available == max_contiguous_available(g)
      res == (available >= max_promotion_in_bytes)
  IN  res


\* ------------------------------------------------------------ promotion
\* One call made by promote: the callee, its arguments and its result.
Call(fn, gen, obj, size, res) ==
  [fn |-> fn, gen |-> gen, obj |-> obj, size |-> size, res |-> res]

\* What an operation on a generation leaves behind.
Outcome(f, returned, res, g, m, o, calls) ==
  [fatal |-> f, returned |-> returned, res |-> res,
   gens |-> g, mem |-> m, oops |-> o, calls |-> calls]

\* A failing assert of a debug build, ShouldNotCallThis() and
\* vm_exit_during_initialization: the VM aborts where it stands and the call
\* does not return.
Abort == Outcome(TRUE, FALSE, NULL, gens, mem, oops, <<>>)

\* The word at address a; what lies past the heap reads as 0.
Word(m, a) == IF a \in Addr THEN m[a] ELSE 0

\* Copy::aligned_disjoint_words(from, to, count).
aligned_disjoint_words(m, from, to, count) ==
  [a \in Addr |-> IF a >= to /\ a < to + count
                  THEN Word(m, from + (a - to)) ELSE m[a]]

\* Generation::allocate(size, is_tlab) (virtual): takes the words at
\* top when they are committed, and fails without blocking otherwise.
allocate(g, size) ==
  IF gens[g].top + size <= gens[g].high
  THEN [res |-> gens[g].top, gens |-> [gens EXCEPT ![g].top = @ + size]]
  ELSE [res |-> NULL, gens |-> gens]

\* GenCollectedHeap::handle_failed_promotion(gen, obj, obj_size): it may
\* expand gen and allocate there, find space in another generation, or
\* report that the promotion failed.
HandlerChoices == {"expand", "elsewhere", "none"}

handle_failed_promotion(g, obj, obj_size, choice) ==
  LET failed == Outcome(FALSE, TRUE, NULL, gens, mem, oops, <<>>)
      placed(at, gs) ==
        Outcome(FALSE, TRUE, at, gs,
                aligned_disjoint_words(mem, obj.addr, at, obj_size),
                oops \cup {[addr |-> at, size |-> obj_size]}, <<>>)
  IN
  CASE choice = "expand" ->
         IF gens[g].top + obj_size <= gens[g].reserved.end_
         THEN placed(gens[g].top,
                     [gens EXCEPT ![g].high = gens[g].top + obj_size,
                                  ![g].top = @ + obj_size])
         ELSE failed
    [] choice = "elsewhere" ->
         LET fits == {o \in GenIds \ {g} : allocate(o, obj_size).res # NULL}
         IN  IF fits = {} THEN failed
             ELSE LET o == CHOOSE x \in fits : TRUE
                      a == allocate(o, obj_size)
                  IN  placed(a.res, a.gens)
    [] OTHER -> failed

\* promote, line 199: the copy of the object into the allocated words.
promote_copy_swapped(m, obj, result, obj_size) ==
  aligned_disjoint_words(m, result, obj.addr, obj_size)

promote_copy(m, obj, result, obj_size) ==
  aligned_disjoint_words(m, obj.addr, result, obj_size)

\* promote, lines 191-195: the promotion-failure hook fired.
promote_forced_failure_delegates(g, obj, obj_size) ==
  LET h == handle_failed_promotion(g, obj, obj_size, "expand")
  IN  [h EXCEPT !.calls =
         <<Call("promotion_should_fail", NULL, NULL, 0, 1),
           Call("handle_failed_promotion", g, obj.addr, obj_size, h.res)>>]

promote_forced_failure(g, obj, obj_size) ==
  Outcome(FALSE, TRUE, NULL, gens, mem, oops,
          <<Call("promotion_should_fail", NULL, NULL, 0, 1)>>)

\* promote, lines 197-204: allocate, then copy or hand over to the heap.
promote_allocating(g, obj, obj_size, choice, asked) ==
  LET a == allocate(g, obj_size)
      result == a.res
  IN  IF result # NULL
      THEN Outcome(FALSE, TRUE, result, a.gens,
                   promote_copy(mem, obj, result, obj_size),
                   oops \cup {[addr |-> result, size |-> obj_size]},
                   asked \o <<Call("allocate", g, NULL, obj_size, result),
                              Call("aligned_disjoint_words", NULL, obj.addr,
                                   obj_size, result)>>)
      ELSE LET h == handle_failed_promotion(g, obj, obj_size, choice)
           IN  [h EXCEPT !.calls =
                  asked \o <<Call("allocate", g, NULL, obj_size, NULL),
                             Call("handle_failed_promotion", g, obj.addr,
                                  obj_size, h.res)>>]

\* Generation::promote(obj, obj_size). should_fail is what
\* Universe::heap()->promotion_should_fail() answers when it is asked.
promote(g, obj, obj_size, should_fail, choice) ==
  IF ASSERT /\ obj_size # obj.size
  THEN Abort
  ELSE IF ~PRODUCT /\ should_fail
       THEN promote_forced_failure(g, obj, obj_size)
       ELSE promote_allocating(g, obj, obj_size, choice,
              IF PRODUCT THEN <<>>
              ELSE <<Call("promotion_should_fail", NULL, NULL, 0, 0)>>)

\* Generation::par_promote(thread_num, obj, m, word_sz).
par_promote_general_impl(g, thread_num, obj, m, word_sz) ==
  promote(g, obj, word_sz, FALSE, "none")

par_promote(g, thread_num, obj, m, word_sz) ==
  Abort

\* ------------------------------------------------- reference processor
\* new ReferenceProcessor(span)
ReferenceProcessor(span, g) == [span |-> span, gen |-> g]

\* Generation::ref_processor_init(). allocated is whether operator new
\* produced an object.
ref_processor_init_replaces(g, allocated) ==
  IF ~allocated
  THEN [fatal |-> TRUE, gens |-> gens, processors |-> processors]
  ELSE [fatal |-> FALSE,
        gens |-> [gens EXCEPT ![g].ref_processor = Len(processors) + 1],
        processors |-> Append(processors, ReferenceProcessor(reserved(g), g))]

ref_processor_init(g, allocated) ==
  IF ASSERT /\ gens[g].ref_processor # NULL
  THEN [fatal |-> TRUE, gens |-> gens, processors |-> processors]
  ELSE IF ASSERT /\ is_empty(reserved(g))
  THEN [fatal |-> TRUE, gens |-> gens, processors |-> processors]
  ELSE IF ~allocated
  THEN [fatal |-> TRUE, gens |-> gens, processors |-> processors]
  ELSE [fatal |-> FALSE,
        gens |-> [gens EXCEPT ![g].ref_processor = Len(processors) + 1],
        processors |-> Append(processors, ReferenceProcessor(reserved(g), g))]

\* ------------------------------------------------------------- actions
\* before is the generation as it was when the call was made, words the
\* words of the object passed in, visited the generations a loop went through.
Last(op, gen, obj, size, res, returned, calls, words, visited) ==
  [op |-> op, gen |-> gen, obj |-> obj, size |-> size, res |-> res,
   returned |-> returned, calls |-> calls, words |-> words,
   visited |-> visited,
   before |-> IF gen = NULL THEN Generation(MemRegion(0, 0), 0, 0)
              ELSE gens[gen]]

NoCall == Last("none", NULL, NULL, 0, NULL, FALSE, <<>>, <<>>, 0)

\* The n words at address a, as a sequence.
words_at(m, a, n) == [k \in 1..n |-> Word(m, a + k - 1)]

Bool(b) == IF b THEN 1 ELSE 0

InitSpacesIdle ==
  /\ spaces = <<>>
  /\ first_cs = NULL
  /\ objects = <<>>
  /\ cp = [space |-> NULL, top |-> NULL]
  /\ passes = <<>>
  /\ visits = <<>>

\* A two-generation heap after construction: the young generation holds
\* one object, whose k-th word holds k (a word never written holds 0); the
\* old generation is empty and partly committed.
Init ==
  /\ build \in Builds
  /\ \E s0 \in 1..MaxObjSize, osz \in 0..OldWords :
       \E initial_size \in 0..osz :
         /\ gens = [g \in GenIds |->
              IF g = young_gen
              THEN [Generation(MemRegion(1, 1 + YoungWords), YoungWords, 0)
                      EXCEPT !.top = 1 + s0]
              ELSE Generation(MemRegion(1 + YoungWords, 1 + YoungWords + osz),
                              initial_size, 1)]
         /\ mem = [a \in Addr |-> IF a <= s0 THEN a ELSE 0]
         /\ oops = {[addr |-> 1, size |-> s0]}
  /\ processors = <<>>
  /\ fatal = FALSE
  /\ last = NoCall
  /\ InitSpacesIdle

\* The promotion-failure hook is there to answer in a build that is not a
\* product build, and the handler when the allocation fails.
HookAnswers == IF PRODUCT THEN {FALSE} ELSE BOOLEAN

HandlerAnswers(g, obj_size) ==
  IF allocate(g, obj_size).res = NULL THEN HandlerChoices ELSE {"none"}

Promote ==
  /\ ~fatal
  /\ \E g \in GenIds, obj \in oops, obj_size \in 1..MaxObjSize :
     \E should_fail \in HookAnswers,
        choice \in HandlerAnswers(g, obj_size) :
       LET r == promote(g, obj, obj_size, should_fail, choice)
       IN  /\ gens' = r.gens
           /\ mem' = r.mem
           /\ oops' = r.oops
           /\ fatal' = r.fatal
           /\ last' = Last("promote", g, obj.addr, obj_size, r.res,
                           r.returned, r.calls,
                           words_at(mem, obj.addr, obj_size), 0)
  /\ UNCHANGED <<build, processors, spaceVars>>

ParPromote ==
  /\ ~fatal
  /\ \E g \in GenIds, obj \in oops, word_sz \in 1..MaxObjSize :
       LET r == par_promote(g, 0, obj, 0, word_sz)
       IN  /\ gens' = r.gens
           /\ mem' = r.mem
           /\ oops' = r.oops
           /\ fatal' = r.fatal
           /\ last' = Last("par_promote", g, obj.addr, word_sz, r.res,
                           r.returned, r.calls,
                           words_at(mem, obj.addr, word_sz), 0)
  /\ UNCHANGED <<build, processors, spaceVars>>

RefProcessorInit ==
  /\ ~fatal
  /\ Len(processors) < MaxProcessors
  /\ \E g \in GenIds, allocated \in BOOLEAN :
       LET r == ref_processor_init(g, allocated)
       IN  /\ gens' = r.gens
           /\ processors' = r.processors
           /\ fatal' = r.fatal
           /\ last' = Last("ref_processor_init", g, NULL, 0, NULL,
                           ~r.fatal, <<>>, <<>>, 0)
  /\ UNCHANGED <<build, mem, oops, spaceVars>>

MaxCapacity ==
  /\ ~fatal
  /\ \E g \in GenIds :
       last' = Last("max_capacity", g, NULL, 0, max_capacity(g), TRUE,
                    <<>>, <<>>, 0)
  /\ UNCHANGED <<genVars, spaceVars>>

NextGen ==
  /\ ~fatal
  /\ \E g \in GenIds :
       last' = Last("next_gen", g, NULL, 0, next_gen(g), TRUE, <<>>, <<>>, 0)
  /\ UNCHANGED <<genVars, spaceVars>>

MaxContiguousAvailable ==
  /\ ~fatal
  /\ \E g \in GenIds :
       last' = Last("max_contiguous_available", g, NULL, 0,
                    max_contiguous_available(g), TRUE, <<>>, <<>>,
                    mca_loop(g, 0, 0).visited)
  /\ UNCHANGED <<genVars, spaceVars>>

PromotionAttemptIsSafe ==
  /\ ~fatal
  /\ \E g \in GenIds, n \in 0..(HeapWords + 1) :
       last' = Last("promotion_attempt_is_safe", g, NULL, n,
                    Bool(promotion_attempt_is_safe(g, n)), TRUE, <<>>, <<>>, 0)
  /\ UNCHANGED <<genVars, spaceVars>>

Next ==
  \/ Promote
  \/ ParPromote

Spec == Init /\ [][Next]_vars

\* The set-up of the generations' reference processors, on the same heap.
NextRefProcessor ==
  \/ RefProcessorInit
  \/ MaxCapacity

SpecRefProcessor == Init /\ [][NextRefProcessor]_vars

\* The capacity checks are pure: they are applied to a heap whose
\* generations are filled to any level.
InitCapacity ==
  /\ build \in Builds
  /\ \E osz \in 0..OldWords :
       \E ytop \in 0..YoungWords, otop \in 0..osz :
         gens = [g \in GenIds |->
           IF g = young_gen
           THEN [Generation(MemRegion(1, 1 + YoungWords), YoungWords, 0)
                   EXCEPT !.top = 1 + ytop]
           ELSE [Generation(MemRegion(1 + YoungWords, 1 + YoungWords + osz),
                            osz, 1)
                   EXCEPT !.top = 1 + YoungWords + otop]]
  /\ mem = [a \in Addr |-> 0]
  /\ oops = {}
  /\ processors = <<>>
  /\ fatal = FALSE
  /\ last = NoCall
  /\ InitSpacesIdle

NextCapacity ==
  \/ NextGen
  \/ MaxContiguousAvailable
  \/ PromotionAttemptIsSafe

SpecCapacity == InitCapacity /\ [][NextCapacity]_vars


\* ------------------------------------------------------------ promotion
AllocateCalls ==
  {i \in DOMAIN last.calls : last.calls[i].fn = "allocate"}

HandlerCalls ==
  {i \in DOMAIN last.calls : last.calls[i].fn = "handle_failed_promotion"}

\* promote was called and its promotion-failure hook answered yes.
HookFired ==
  /\ last.op = "promote"
  /\ \E i \in DOMAIN last.calls :
       /\ last.calls[i].fn = "promotion_should_fail"
       /\ last.calls[i].res = 1

\* The one call of the failed-promotion handler, made with this generation,
\* the object and the size, decides what promote returns.
HandlerDecides ==
  /\ Cardinality(HandlerCalls) = 1
  /\ \A j \in HandlerCalls :
       /\ last.calls[j].gen = last.gen
       /\ last.calls[j].obj = last.obj
       /\ last.calls[j].size = last.size
       /\ last.returned
       /\ last.res = last.calls[j].res

C1_WitnessCopied ==
  /\ last.op = "promote"
  /\ \E i \in AllocateCalls : last.calls[i].res # NULL
  /\ last.size = MaxObjSize

\* C2 as stated: with the promotion-failure hook active promote takes the
\* failure path: no allocation, and the failed-promotion handler is called
\* with the object and the size and its result is returned.
C2_HookTakesHandlerPath ==
  HookFired => (AllocateCalls = {} /\ HandlerDecides)

\* C2, amended: with the promotion-failure hook active (a non-product
\* build) promote returns none at once: it makes no allocation, leaves the
\* generation as it was and does not call the failed-promotion handler.
C2_HookReturnsNull ==
  HookFired =>
    /\ ~PRODUCT
    /\ last.returned
    /\ last.res = NULL
    /\ AllocateCalls = {}
    /\ HandlerCalls = {}
    /\ gens[last.gen] = last.before

\* The hook fired although the allocation would have succeeded.
C2_Witness ==
  /\ HookFired
  /\ allocate(last.gen, last.size).res # NULL

\* C8: par_promote on the base generation ends in a fatal failure for
\* every argument: it does not return, makes no allocation and leaves the
\* generation as it was.
C8_ParPromoteIsFatal ==
  last.op = "par_promote" =>
    /\ fatal
    /\ ~last.returned
    /\ last.calls = <<>>
    /\ gens[last.gen] = last.before

C8_Witness ==
  /\ last.op = "par_promote"
  /\ fatal
  /\ allocate(last.gen, last.size).res # NULL

\* ----------------------------------------------------- capacity checks
Max(a, b) == IF a >= b THEN a ELSE b

\* C3: promotion_attempt_is_safe(n) is true iff
\* n <= max_contiguous_available(), equal sizes included.
C3_SafeIffFits ==
  last.op = "promotion_attempt_is_safe" =>
    ((last.res = 1) <=> (last.size <= max_contiguous_available(last.gen)))

C3_Witness ==
  /\ last.op = "promotion_attempt_is_safe"
  /\ last.size = max_contiguous_available(last.gen)
  /\ last.size > 0
  /\ last.res = 1

\* C4: next_gen() of the level-0 generation is the level-1 generation and
\* of the level-1 generation none; max_contiguous_available() is the larger
\* of the two generations' contiguous_available() on the young generation
\* and the old generation's own on the old one, and its loop visits at most
\* two generations.
C4_TwoGenerationChain ==
  /\ last.op = "next_gen" =>
       IF level(last.gen) = 0
       THEN last.res \in GenIds /\ level(last.res) = 1
       ELSE last.res = NULL
  /\ last.op = "max_contiguous_available" =>
       /\ last.visited <= 2
       /\ IF level(last.gen) = 0
          THEN last.res = Max(contiguous_available(young_gen),
                              contiguous_available(old_gen))
          ELSE last.res = contiguous_available(old_gen)

C4_Witness ==
  /\ last.op = "max_contiguous_available"
  /\ level(last.gen) = 0
  /\ contiguous_available(old_gen) > contiguous_available(young_gen)
  /\ last.res = contiguous_available(old_gen)
  /\ last.visited = 2

\* ------------------------------------------------- reference processor
Created(g) == {i \in DOMAIN processors : processors[i].gen = g}

\* What holds of the reference processors whatever the build: a
\* generation has none until one is constructed for it, and the one it has
\* is the last constructed for it, scoped to its reserved range.
ProcessorIsScoped ==
  \A g \in GenIds :
    /\ gens[g].ref_processor = NULL <=> Created(g) = {}
    /\ gens[g].ref_processor # NULL =>
         /\ gens[g].ref_processor \in Created(g)
         /\ \A i \in Created(g) : i <= gens[g].ref_processor
         /\ processors[gens[g].ref_processor].span = reserved(g)

\* A second call, or a call on an empty reserved range, aborts and
\* replaces nothing; a generation that has not failed has had at most one
\* processor constructed, over a range that is not empty.
ReinitIsFatal ==
  /\ \A g \in GenIds :
       /\ ~fatal => Cardinality(Created(g)) <= 1
       /\ gens[g].ref_processor # NULL => ~is_empty(reserved(g))
  /\ last.op = "ref_processor_init" =>
       /\ (last.before.ref_processor # NULL \/ is_empty(last.before.reserved))
            => (fatal /\ gens[last.gen] = last.before)
       /\ ~fatal => /\ last.before.ref_processor = NULL
                    /\ gens[last.gen].ref_processor = Len(processors)

NumSpaces == 2
SpaceIds == 1..NumSpaces
QueryAddr == 0..(NumSpaces * SpaceWords + 1)

\* Space::is_in_reserved(p): p lies in [bottom, end).
Space_is_in_reserved(s, p) == spaces[s].bottom <= p /\ p < spaces[s].end_

\* The objects standing in space s.
ObjectsIn(objs, s) ==
  {i \in DOMAIN objs :
     objs[i].addr # NULL /\ Space_is_in_reserved(s, objs[i].addr)}

\* Space::top(): the end of the last object of the space.
Space_top(s) ==
  LET ends == {objects[i].addr + objects[i].size : i \in ObjectsIn(objects, s)}
  IN  IF ends = {} THEN spaces[s].bottom
      ELSE CHOOSE e \in ends : \A f \in ends : f <= e

\* Space::used(): the words below top.
Space_used(s) == Space_top(s) - spaces[s].bottom

\* Space::block_start(p): the start of the object holding p below top, and
\* top, the start of the free block, from there on.
Space_block_start(s, p) ==
  LET holding == {i \in ObjectsIn(objects, s) :
                    objects[i].addr <= p /\ p < objects[i].addr + objects[i].size}
  IN  IF holding # {} THEN objects[CHOOSE i \in holding : TRUE].addr
      ELSE Space_top(s)

\* Space::block_size(p): the size of the object holding p below top, and
\* the words from p to end in the free block.
Space_block_size(s, p) ==
  LET holding == {i \in ObjectsIn(objects, s) :
                    objects[i].addr <= p /\ p < objects[i].addr + objects[i].size}
  IN  IF holding # {} THEN objects[CHOOSE i \in holding : TRUE].size
      ELSE spaces[s].end_ - p

\* Space::block_is_obj(p): what lies below top is an object.
Space_block_is_obj(s, p) == p < Space_top(s)

\* Generation::space_iterate(blk, usedOnly) (pure virtual): the spaces the
\* closure is applied to, in order. The generations of this heap apply it
\* to each of their spaces whatever usedOnly is.
space_iterate(usedOnly) == [i \in 1..Len(spaces) |-> i]

\* GenerationIsInReservedClosure::do_space.
GenerationIsInReservedClosure_do_space(blk, s) ==
  IF blk.sp = NULL
  THEN IF Space_is_in_reserved(s, blk.p) THEN [blk EXCEPT !.sp = s] ELSE blk
  ELSE blk

\* Generation::space_containing(p).
space_containing(p) ==
  LET order == space_iterate(FALSE)
      blk[i \in 0..Len(order)] ==
        IF i = 0 THEN [p |-> p, sp |-> NULL]
        ELSE GenerationIsInReservedClosure_do_space(blk[i - 1], order[i])
  IN  blk[Len(order)].sp

\* GenerationBlockStartClosure::do_space.
GenerationBlockStartClosure_unguarded(blk, s) ==
  IF blk.start = NULL
  THEN [blk EXCEPT !.start = Space_block_start(s, blk.p)]
  ELSE blk

GenerationBlockStartClosure_do_space(blk, s) ==
  IF blk.start = NULL /\ Space_is_in_reserved(s, blk.p)
  THEN [blk EXCEPT !.start = Space_block_start(s, blk.p)]
  ELSE blk

\* Generation::block_start(p).
block_start(p) ==
  LET order == space_iterate(FALSE)
      blk[i \in 0..Len(order)] ==
        IF i = 0 THEN [p |-> p, start |-> NULL]
        ELSE GenerationBlockStartClosure_do_space(blk[i - 1], order[i])
  IN  blk[Len(order)].start

\* GenerationBlockSizeClosure::do_space.
GenerationBlockSizeClosure_do_space(blk, s) ==
  IF blk.size = 0 /\ Space_is_in_reserved(s, blk.p)
  THEN [blk EXCEPT !.size = Space_block_size(s, blk.p)]
  ELSE blk

\* Generation::block_size(p): assert(blk.size > 0) aborts a debug build on
\* a zero size.
block_size_unchecked(p) ==
  LET order == space_iterate(FALSE)
      blk[i \in 0..Len(order)] ==
        IF i = 0 THEN [p |-> p, size |-> 0]
        ELSE GenerationBlockSizeClosure_do_space(blk[i - 1], order[i])
  IN  [fatal |-> FALSE, returned |-> TRUE, res |-> blk[Len(order)].size]

block_size(p) ==
  LET order == space_iterate(FALSE)
      blk[i \in 0..Len(order)] ==
        IF i = 0 THEN [p |-> p, size |-> 0]
        ELSE GenerationBlockSizeClosure_do_space(blk[i - 1], order[i])
  IN  IF ~ASSERT \/ blk[Len(order)].size > 0
      THEN [fatal |-> FALSE, returned |-> TRUE, res |-> blk[Len(order)].size]
      ELSE [fatal |-> TRUE, returned |-> FALSE, res |-> 0]

\* GenerationBlockIsObjClosure::do_space.
GenerationBlockIsObjClosure_do_space(blk, s) ==
  IF ~blk.is_obj /\ Space_is_in_reserved(s, blk.p)
  THEN [blk EXCEPT !.is_obj = blk.is_obj \/ Space_block_is_obj(s, blk.p)]
  ELSE blk

\* Generation::block_is_obj(p).
block_is_obj(p) ==
  LET order == space_iterate(FALSE)
      blk[i \in 0..Len(order)] ==
        IF i = 0 THEN [p |-> p, is_obj |-> FALSE]
        ELSE GenerationBlockIsObjClosure_do_space(blk[i - 1], order[i])
  IN  blk[Len(order)].is_obj

\* ------------------------------------------------- the spaces at the start
\* The compaction chain through the spaces of chain, in order.
ChainNext(chain, s) ==
  LET later == {t \in chain : t > s}
  IN  IF s \in chain /\ later # {}
      THEN CHOOSE t \in later : \A u \in later : t <= u
      ELSE NULL

ChainFirst(chain) ==
  IF chain = {} THEN NULL ELSE CHOOSE t \in chain : \A u \in chain : t <= u

SpaceLayout(chain) ==
  [s \in SpaceIds |->
     [bottom |-> 1 + (s - 1) * SpaceWords,
      end_   |-> 1 + s * SpaceWords,
      next   |-> ChainNext(chain, s)]]

\* n objects, object k of size sz[k] in space sp[k], packed from the bottom
\* of their spaces in index order.
PackedAddr(sp, sz, k) ==
  LET before == {j \in 1..(k - 1) : sp[j] = sp[k]}
      sum[j \in 0..k] ==
        IF j = 0 THEN 0
        ELSE sum[j - 1] + (IF j \in before THEN sz[j] ELSE 0)
  IN  1 + (sp[k] - 1) * SpaceWords + sum[k]

Placements(n) ==
  {pl \in [sp : [1..n -> SpaceIds], sz : [1..n -> 1..MaxObjSize]] :
     /\ \A k \in 1..(n - 1) : pl.sp[k] <= pl.sp[k + 1]
     /\ \A k \in 1..n :
          PackedAddr(pl.sp, pl.sz, k) + pl.sz[k] <= 1 + pl.sp[k] * SpaceWords}

\* An object: where it stands, its size, its mark, its one reference field
\* and its forwarding pointer. orig is where it stood before the collection
\* and target the object its reference field refers to (0: none).
Object(addr, size, live, ref, target) ==
  [addr |-> addr, size |-> size, live |-> live, ref |-> ref,
   fwd |-> NULL, orig |-> addr, target |-> target]

NoCompactPoint == [space |-> NULL, top |-> NULL]

NoVisits ==
  [pass \in {"prepare_for_compaction", "adjust_pointers", "compact"} |-> <<>>]

InitHeapIdle ==
  /\ gens = [g \in GenIds |-> Generation(MemRegion(g, g), 0, g - 1)]
  /\ mem = [a \in Addr |-> 0]
  /\ oops = {}
  /\ processors = <<>>
  /\ fatal = FALSE
  /\ last = NoCall

\* A generation whose spaces hold up to MaxObjects objects.
InitQuery ==
  /\ build \in Builds
  /\ InitHeapIdle
  /\ spaces = SpaceLayout(SpaceIds)
  /\ first_cs = ChainFirst(SpaceIds)
  /\ \E n \in 0..MaxObjects : \E pl \in Placements(n) :
       objects = [k \in 1..n |->
                    Object(PackedAddr(pl.sp, pl.sz, k), pl.sz[k], TRUE, NULL, 0)]
  /\ cp = NoCompactPoint
  /\ passes = <<>>
  /\ visits = NoVisits

SpaceContaining ==
  /\ ~fatal
  /\ \E p \in QueryAddr :
       last' = Last("space_containing", NULL, p, 0, space_containing(p),
                    TRUE, <<>>, <<>>, 0)
  /\ UNCHANGED <<genVars, spaceVars>>

BlockStart ==
  /\ ~fatal
  /\ \E p \in QueryAddr :
       last' = Last("block_start", NULL, p, 0, block_start(p),
                    TRUE, <<>>, <<>>, 0)
  /\ UNCHANGED <<genVars, spaceVars>>

BlockSize ==
  /\ ~fatal
  /\ \E p \in QueryAddr :
       LET r == block_size(p)
       IN  /\ last' = Last("block_size", NULL, p, 0, r.res, r.returned,
                           <<>>, <<>>, 0)
           /\ fatal' = r.fatal
  /\ UNCHANGED <<build, gens, mem, oops, processors, spaceVars>>

BlockIsObj ==
  /\ ~fatal
  /\ \E p \in QueryAddr :
       last' = Last("block_is_obj", NULL, p, 0, Bool(block_is_obj(p)),
                    TRUE, <<>>, <<>>, 0)
  /\ UNCHANGED <<genVars, spaceVars>>

NextQuery ==
  \/ SpaceContaining
  \/ BlockStart
  \/ BlockSize
  \/ BlockIsObj

SpecQuery == InitQuery /\ [][NextQuery]_vars


\* ----------------------------------------------------------- compaction
\* The CompactPoint moved on to a space of the chain with room for size
\* words (CompactibleSpace::forward).
RECURSIVE cp_fit(_, _)
cp_fit(c, size) ==
  IF c.top + size <= spaces[c.space].end_ \/ spaces[c.space].next = NULL
  THEN c
  ELSE cp_fit([space |-> spaces[c.space].next,
               top   |-> spaces[spaces[c.space].next].bottom], size)

\* The live objects todo forwarded in address order, each to the
\* CompactPoint, which moves past it.
RECURSIVE forward_all(_, _, _)
forward_all(todo, c, objs) ==
  IF todo = {}
  THEN [cp |-> c, objects |-> objs]
  ELSE LET q == CHOOSE i \in todo : \A j \in todo : objs[i].addr <= objs[j].addr
           at == cp_fit(c, objs[q].size)
       IN  forward_all(todo \ {q}, [at EXCEPT !.top = @ + objs[q].size],
                       [objs EXCEPT ![q].fwd = at.top])

\* CompactibleSpace::prepare_for_compaction(cp): a CompactPoint with no
\* space yet starts at the bottom of the generation's first compaction space.
Space_prepare_for_compaction(s, c, objs) ==
  LET start == IF c.space = NULL
               THEN [space |-> first_cs, top |-> spaces[first_cs].bottom]
               ELSE c
  IN  forward_all({i \in ObjectsIn(objs, s) : objs[i].live}, start, objs)

\* Space::adjust_pointers(): each reference field of a live object of the
\* space takes the forwarding pointer of the object standing where it
\* points, when that object has one.
Space_adjust_pointers(s, objs) ==
  [i \in DOMAIN objs |->
     IF i \in ObjectsIn(objs, s) /\ objs[i].live /\ objs[i].ref # NULL
     THEN LET at == {j \in DOMAIN objs : objs[j].addr = objs[i].ref}
          IN  IF at = {} THEN objs[i]
              ELSE LET r == objs[CHOOSE j \in at : TRUE]
                   IN  IF r.fwd # NULL THEN [objs[i] EXCEPT !.ref = r.fwd]
                       ELSE objs[i]
     ELSE objs[i]]

\* CompactibleSpace::compact(): each live object of the space moves to its
\* forwarding address and loses the forwarding pointer; the dead ones are
\* reclaimed.
Space_compact(s, objs) ==
  [i \in DOMAIN objs |->
     IF i \in ObjectsIn(objs, s)
     THEN IF objs[i].live
          THEN IF objs[i].fwd # NULL
               THEN [objs[i] EXCEPT !.addr = objs[i].fwd, !.fwd = NULL]
               ELSE objs[i]
          ELSE [objs[i] EXCEPT !.addr = NULL]
     ELSE objs[i]]

\* One per-space call of a pass, with the CompactPoint before and after.
Visit(space, cp_in, cp_out) ==
  [space |-> space, cp_in |-> cp_in, cp_out |-> cp_out]

\* Generation::prepare_for_compaction(cp): the while loop.
RECURSIVE prepare_walk(_, _, _, _)
prepare_walk(space, c, objs, log) ==
  IF space = NULL
  THEN [cp |-> c, objects |-> objs, log |-> log]
  ELSE LET r == Space_prepare_for_compaction(space, c, objs)
       IN  prepare_walk(spaces[space].next, r.cp, r.objects,
                        Append(log, Visit(space, c, r.cp)))

\* The loop with a CompactPoint of its own for every space.
RECURSIVE prepare_walk_apart(_, _, _, _)
prepare_walk_apart(space, c, objs, log) ==
  IF space = NULL
  THEN [cp |-> c, objects |-> objs, log |-> log]
  ELSE LET r == Space_prepare_for_compaction(space, NoCompactPoint, objs)
       IN  prepare_walk_apart(spaces[space].next, r.cp, r.objects,
                              Append(log, Visit(space, NoCompactPoint, r.cp)))

prepare_for_compaction_apart(c) ==
  prepare_walk_apart(first_cs, c, objects, <<>>)

\* Generation::prepare_for_compaction(cp).
prepare_for_compaction(c) == prepare_walk(first_cs, c, objects, <<>>)

\* AdjustPointersClosure::do_space.
AdjustPointersClosure_do_space(objs, sp) == Space_adjust_pointers(sp, objs)

\* adjust_pointers over the compaction chain alone.
RECURSIVE adjust_walk(_, _, _)
adjust_walk(space, objs, log) ==
  IF space = NULL
  THEN [cp |-> cp, objects |-> objs, log |-> log]
  ELSE adjust_walk(spaces[space].next,
                   AdjustPointersClosure_do_space(objs, space),
                   Append(log, Visit(space, NoCompactPoint, NoCompactPoint)))

adjust_pointers_chain_only == adjust_walk(first_cs, objects, <<>>)

\* Generation::adjust_pointers(): space_iterate(&blk, true).
adjust_pointers ==
  LET order == space_iterate(TRUE)
      blk[i \in 0..Len(order)] ==
        IF i = 0 THEN objects
        ELSE AdjustPointersClosure_do_space(blk[i - 1], order[i])
  IN  [cp |-> cp, objects |-> blk[Len(order)],
       log |-> [i \in 1..Len(order) |->
                  Visit(order[i], NoCompactPoint, NoCompactPoint)]]

\* Generation::compact(): the while loop.
RECURSIVE compact_walk(_, _, _)
compact_walk(sp, objs, log) ==
  IF sp = NULL
  THEN [cp |-> cp, objects |-> objs, log |-> log]
  ELSE compact_walk(spaces[sp].next, Space_compact(sp, objs),
                    Append(log, Visit(sp, NoCompactPoint, NoCompactPoint)))

\* Generation::compact().
compact == compact_walk(first_cs, objects, <<>>)

Ran(pass) == \E k \in DOMAIN passes : passes[k] = pass

\* A marked generation: any spaces chained, objects live or dead, every
\* live object referring to a live object or to nothing.
InitCompact ==
  /\ build = "product"
  /\ InitHeapIdle
  /\ \E chain \in SUBSET SpaceIds :
       /\ spaces = SpaceLayout(chain)
       /\ first_cs = ChainFirst(chain)
  /\ \E n \in 0..MaxObjects : \E pl \in Placements(n) :
       \E live \in [1..n -> BOOLEAN] :
         \E target \in [1..n -> 0..n] :
           /\ \A k \in 1..n :
                /\ ~live[k] => target[k] = 0
                /\ target[k] # 0 => live[target[k]]
           /\ objects = [k \in 1..n |->
                Object(PackedAddr(pl.sp, pl.sz, k), pl.sz[k], live[k],
                       IF target[k] = 0 THEN NULL
                       ELSE PackedAddr(pl.sp, pl.sz, target[k]),
                       target[k])]
  /\ cp = NoCompactPoint
  /\ passes = <<>>
  /\ visits = NoVisits

\* The collector runs each pass once in a collection; the order is its own.
RunPass(pass, r) ==
  /\ ~Ran(pass)
  /\ objects' = r.objects
  /\ cp' = r.cp
  /\ passes' = Append(passes, pass)
  /\ visits' = [visits EXCEPT ![pass] = r.log]
  /\ UNCHANGED <<genVars, last, spaces, first_cs>>

PrepareForCompaction ==
  RunPass("prepare_for_compaction", prepare_for_compaction(NoCompactPoint))

AdjustPointers == RunPass("adjust_pointers", adjust_pointers)

Compact == RunPass("compact", compact)

NextCompact ==
  \/ PrepareForCompaction
  \/ AdjustPointers
  \/ Compact

SpecCompact == InitCompact /\ [][NextCompact]_vars


\* ------------------------------------------------------- block queries
\* The first space, in space_iterate order, whose reserved extent holds p.
FirstContaining(p) ==
  LET holding == {s \in SpaceIds : Space_is_in_reserved(s, p)}
  IN  IF holding = {} THEN NULL
      ELSE CHOOSE s \in holding : \A t \in holding : s <= t

C9_WitnessOutside ==
  /\ ASSERT
  /\ last.op = "block_size"
  /\ FirstContaining(last.obj) = NULL
  /\ fatal

RECURSIVE ChainSeq(_)
ChainSeq(s) == IF s = NULL THEN <<>> ELSE <<s>> \o ChainSeq(spaces[s].next)

VisitedSpaces(pass) ==
  [k \in DOMAIN visits[pass] |-> visits[pass][k].space]

Live == {i \in DOMAIN objects : objects[i].live}

ProtocolDone ==
  passes = <<"prepare_for_compaction", "adjust_pointers", "compact">>

\* C6: after prepare_for_compaction(cp), adjust_pointers() and compact()
\* in this order every reference of a live object is the final address of
\* the object it refers to, every live object lies in a space and no two
\* overlap; the one CompactPoint goes from space to space: each space
\* starts where the space before it stopped.
C6_CompactionProtocol ==
  ProtocolDone =>
    /\ \A i \in Live :
         /\ objects[i].target # 0 =>
              objects[i].ref = objects[objects[i].target].addr
         /\ objects[i].target = 0 => objects[i].ref = NULL
         /\ \E s \in SpaceIds :
              /\ spaces[s].bottom <= objects[i].addr
              /\ objects[i].addr + objects[i].size <= spaces[s].end_
    /\ \A i, j \in Live :
         i # j => \/ objects[i].addr + objects[i].size <= objects[j].addr
                  \/ objects[j].addr + objects[j].size <= objects[i].addr
    /\ LET log == visits["prepare_for_compaction"]
       IN  /\ \A k \in 1..(Len(log) - 1) : log[k + 1].cp_in = log[k].cp_out
           /\ Len(log) > 0 => (log[1].cp_in = NoCompactPoint
                               /\ cp = log[Len(log)].cp_out)

\* Two live objects in different spaces of the chain refer to each other,
\* and the second has moved into the first one's space.
C6_Witness ==
  /\ ProtocolDone
  /\ Len(ChainSeq(first_cs)) >= 2
  /\ \E i, j \in Live :
       /\ objects[i].target = j /\ objects[j].target = i
       /\ FirstContaining(objects[i].orig) # FirstContaining(objects[j].orig)
       /\ objects[j].addr # objects[j].orig
       /\ FirstContaining(objects[j].addr) = FirstContaining(objects[i].addr)

====
